---- MODULE Spec2Model ----
(***************************************************************************)
(* Model of mod_launcher (src/src/lib.rs): the artifact synchronisation    *)
(* run of launch_minecraft (library batches, client jar, asset index,      *)
(* asset objects), download_artifact and check_sha1_matches.               *)
(*                                                                         *)
(* A file is a record [dir, exists, bytes]; bytes are sequences of byte    *)
(* values.  Every future of a join_all batch is a task with a position pc; *)
(* one action is one resumption of a future at an await point together     *)
(* with the blocking operation or the response it was waiting for.         *)
(***************************************************************************)
EXTENDS Integers, Sequences, FiniteSets, TLC

\* ---------------------------------------------------------------- bounds
\* number of libraries in the version info (two chunks of ChunkSize)
NumLibs == 5
\* number of objects in the asset index
NumAssets == 2
\* number of destination paths that are not already valid when the run starts
MaxStale == 1
\* number of injected failures (transport error, wrong payload, filesystem error)
MaxFaults == 1
\* number of rules of a guarded launch argument
MaxRules == 2
\* number of launch arguments of an argument list
MaxArgs == 3

\* ------------------------------------------------------- program constants
\* info.libraries.chunks(4) and the asset objects' .chunks(4)
ChunkSize == 4

\* ------------------------------------------------------------ byte contents
LibNames == <<"l1.jar", "l2.jar", "l3.jar", "l4.jar", "l5.jar", "l6.jar", "l7.jar">>

LibBytes(i) == <<96 + i>>
ClientBytes == <<106>>
IndexBytes == <<105>>
AssetBytes(k) == <<111 + k>>
\* bytes that belong to no artifact of the manifest, found on disk
CorruptBytes == <<120>>
\* bytes that belong to no artifact of the manifest, served by a faulty transfer
TamperedBytes == <<116>>

\* Sha1::new(); update(bytes); finalize(); format!("{:x}"): the lower-case hex
\* SHA-1 of the byte strings the model uses (the real digests).
Sha1Hex(bytes) ==
    CASE bytes = <<>>    -> "da39a3ee5e6b4b0d3255bfef95601890afd80709"
      [] bytes = <<97>>  -> "86f7e437faa5a7fce15d1ddcb9eaeaea377667b8"
      [] bytes = <<98>>  -> "e9d71f5ee7c92d6dc9e92ffdad17b8bd49418f98"
      [] bytes = <<99>>  -> "84a516841ba77a5b4648de2cd0dfcb30ea46dbb4"
      [] bytes = <<100>> -> "3c363836cf4e16666669a25da280a1865c2d2874"
      [] bytes = <<101>> -> "58e6b3a414a1e090dfc6029add0f3555ccba127f"
      [] bytes = <<102>> -> "4a0a19218e082a343a1b17e5333409af9d98f0f5"
      [] bytes = <<103>> -> "54fd1711209fb1c0781092374132c66e79e2241b"
      [] bytes = <<105>> -> "042dc4512fa3d391c5170cf3aa61e6a638f84342"
      [] bytes = <<106>> -> "5c2dd944dde9e08881bef0894fe7b22a5c9c4b06"
      [] bytes = <<112>> -> "516b9783fca517eecbd1d064da2d165310b19759"
      [] bytes = <<113>> -> "22ea1c649c82946aa6e479e1ffd321e4a318b1b0"
      [] bytes = <<114>> -> "4dc7c9ec434ed06502767136789763ec11d2c4b7"
      [] bytes = <<115>> -> "a0f1490a20d0211c997b44bc357e1972deab8ae3"
      [] bytes = <<116>> -> "8efd86fb78a56a5145ed7739dcb00c78581c5375"
      [] bytes = <<120>> -> "11f6ad8ec52a2984abaafd7c3b516503785c2072"

\* obj.hash.chars().take(2).collect()
HashPrefix(hash) ==
    CASE hash = "516b9783fca517eecbd1d064da2d165310b19759" -> "51"
      [] hash = "22ea1c649c82946aa6e479e1ffd321e4a318b1b0" -> "22"
      [] hash = "4dc7c9ec434ed06502767136789763ec11d2c4b7" -> "4d"
      [] hash = "a0f1490a20d0211c997b44bc357e1972deab8ae3" -> "a0"

\* check_sha1_matches: &result == sha1
check_sha1_matches(bytes, sha1) == Sha1Hex(bytes) = sha1

\* ----------------------------------------------------------------- manifest
\* FileInfo {sha1, url} with the destination path the caller joins to it.
\* dup: library 2 is listed with the same artifact as library 1.
LibSource(i, dup) == IF dup /\ i = 2 THEN 1 ELSE i

Library(i, dup) ==
    [kind |-> "artifact",
     path |-> <<"libraries", LibNames[LibSource(i, dup)]>>,
     sha1 |-> Sha1Hex(LibBytes(LibSource(i, dup))),
     url  |-> <<"libraries.minecraft.net", LibNames[LibSource(i, dup)]>>]

VersionInfo(dup) ==
    [libraries   |-> [i \in 1..NumLibs |-> Library(i, dup)],
     client      |-> [kind |-> "artifact",
                      path |-> <<"client.jar">>,
                      sha1 |-> Sha1Hex(ClientBytes),
                      url  |-> <<"piston-data.mojang.com", "client.jar">>],
     asset_index |-> [kind |-> "artifact",
                      path |-> <<"assets", "indexes", "idx.json">>,
                      sha1 |-> Sha1Hex(IndexBytes),
                      url  |-> <<"piston-meta.mojang.com", "idx.json">>]]

\* objects_dir.join(&hash_prefix).join(&obj.hash)
AssetFile(hash) == <<"assets", "objects", HashPrefix(hash), hash>>

\* format!("https://resources.download.minecraft.net/{}/{}", hash_prefix, obj.hash)
AssetUrl(hash) == <<"resources.download.minecraft.net", HashPrefix(hash), hash>>

\* an asset object as a descriptor: its digest is its hash
AssetObject(hash) ==
    [kind |-> "asset", path |-> AssetFile(hash), sha1 |-> hash, url |-> AssetUrl(hash)]

\* serde_json::from_str::<AssetIndex>: the objects of the index document
AssetIndexObjects == [k \in 1..NumAssets |-> [hash |-> Sha1Hex(AssetBytes(k))]]

ParseAssetIndex(bytes) ==
    IF bytes = IndexBytes
    THEN [ok |-> TRUE, objects |-> AssetIndexObjects]
    ELSE [ok |-> FALSE, objects |-> <<>>]

ArtifactDescriptors(inf) ==
    {inf.libraries[i] : i \in 1..NumLibs} \cup {inf.client, inf.asset_index}

AllDescriptors(inf) ==
    ArtifactDescriptors(inf) \cup {AssetObject(AssetIndexObjects[k].hash) : k \in 1..NumAssets}

AllPaths(inf) == {d.path : d \in AllDescriptors(inf)}

\* the remote store: the bytes a URL serves when the transfer is not faulty
Remote(url) ==
    CASE url[1] = "libraries.minecraft.net" ->
           LibBytes(CHOOSE i \in 1..Len(LibNames) : LibNames[i] = url[2])
      [] url[1] = "piston-data.mojang.com" -> ClientBytes
      [] url[1] = "piston-meta.mojang.com" -> IndexBytes
      [] url[1] = "resources.download.minecraft.net" ->
           AssetBytes(CHOOSE k \in 1..4 : Sha1Hex(AssetBytes(k)) = url[3])

\* ------------------------------------------------------- resolve_arguments
\* A String is a sequence of one-character strings.  A HashMap is the set of
\* its <<key, value>> entries, an Option a record [some, v].
None == [some |-> FALSE, v |-> <<>>]
Some(x) == [some |-> TRUE, v |-> x]

\* \w of the regex crate, for the characters the model uses
WordChars == {"a", "b", "k", "m", "v", "w", "x", "y", "_", "1"}

\* the end of the longest run of \w characters of s that starts at i
\* (i - 1 when there is none)
RECURSIVE WordRunEnd(_, _)
WordRunEnd(s, i) ==
    IF i <= Len(s) /\ s[i] \in WordChars THEN WordRunEnd(s, i + 1) ELSE i - 1

\* a match of \$\{(?<key>\w+)} at position i of s: the position of its
\* closing brace, 0 when there is no match at i
MatchEnd(s, i) ==
    IF i + 3 <= Len(s) /\ s[i] = "$" /\ s[i + 1] = "{"
    THEN LET e == WordRunEnd(s, i + 2) IN
         IF e >= i + 2 /\ e + 1 <= Len(s) /\ s[e + 1] = "}" THEN e + 1 ELSE 0
    ELSE 0

\* variant of Lookup: a key the table lacks is left as it was written
LookupMutKeep(constants, key) ==
    IF \E e \in constants : e[1] = key
    THEN (CHOOSE e \in constants : e[1] = key)[2]
    ELSE <<"$", "{">> \o key \o <<"}">>

\* arg_query.constants.get(&key): the value, String::from("") when missing
\* (lines 238-244)
Lookup(constants, key) ==
    IF \E e \in constants : e[1] = key
    THEN (CHOOSE e \in constants : e[1] = key)[2]
    ELSE <<>>

\* arg_regex.replace_all(arg, ..): the non-overlapping matches from left to
\* right, each replaced by the looked-up value; the rest is copied
RECURSIVE ReplaceFrom(_, _, _)
ReplaceFrom(s, i, constants) ==
    IF i > Len(s) THEN <<>>
    ELSE LET m == MatchEnd(s, i) IN
         IF m > 0
         THEN Lookup(constants, SubSeq(s, i + 2, m - 1)) \o ReplaceFrom(s, m + 1, constants)
         ELSE <<s[i]>> \o ReplaceFrom(s, i + 1, constants)

ReplaceAll(s, constants) == ReplaceFrom(s, 1, constants)

\* rule.features.as_ref().map_or(true, |features| features.iter().all(
\*   |(feature, state)| arg_query.features.contains(feature) || !state))
PassedFeatures(rule, q) ==
    IF rule.features.some
    THEN \A e \in rule.features.v : (e[1] \in q.features) \/ ~e[2]
    ELSE TRUE

\* variant of PassedOs: the arch constraint is not looked at
PassedOsMutNameOnly(rule, q) ==
    IF rule.os.some
    THEN IF rule.os.v.name.some THEN q.os_properties.name = rule.os.v.name.v ELSE TRUE
    ELSE TRUE

\* rule.os.as_ref().map_or(true, |os| passed_name && passed_arch) (lines 211-217)
PassedOs(rule, q) ==
    IF rule.os.some
    THEN LET passed_name == IF rule.os.v.name.some
                            THEN q.os_properties.name = rule.os.v.name.v ELSE TRUE
             passed_arch == IF rule.os.v.arch.some
                            THEN q.os_properties.arch = rule.os.v.arch.v ELSE TRUE
         IN passed_name /\ passed_arch
    ELSE TRUE

\* variant of RulePasses: the action is not looked at
RulePassesMutNoDeny(rule, q) == PassedFeatures(rule, q) /\ PassedOs(rule, q)

\* the closure given to rules.iter().all (lines 206-222):
\* passed != matches!(rule.action, RuleAction::Deny)
RulePasses(rule, q) ==
    LET passed == PassedFeatures(rule, q) /\ PassedOs(rule, q)
    IN passed # (rule.action = "Deny")

\* variant of AddArguments: one passing rule is enough
AddArgumentsMutAny(rules, q) == \E k \in 1..Len(rules) : RulePasses(rules[k], q)

\* let add_arguments = rules.iter().all(..)
AddArguments(rules, q) == \A k \in 1..Len(rules) : RulePasses(rules[k], q)

\* str_forms of one LaunchArgument (lines 203-233)
StrForms(arg, q) ==
    IF arg.type = "String" THEN <<arg.str>>
    ELSE IF AddArguments(arg.rules, q)
         THEN IF arg.value.type = "String" THEN <<arg.value.str>> ELSE arg.value.vec
         ELSE <<>>

\* one iteration of `for arg in arguments`: str_forms, each placeholder-
\* substituted (lines 235-246)
Contribution(arg, q) ==
    LET forms == StrForms(arg, q)
    IN [k \in 1..Len(forms) |-> ReplaceAll(forms[k], q.constants)]

\* variant of resolve_arguments: array values are appended after everything else
RECURSIVE ResolveMutArraysLast(_, _)
ResolveMutArraysLast(arguments, q) ==
    IF arguments = <<>> THEN <<>>
    ELSE LET c == Contribution(arguments[1], q) IN
         IF Len(c) > 1
         THEN ResolveMutArraysLast(Tail(arguments), q) \o c
         ELSE c \o ResolveMutArraysLast(Tail(arguments), q)

\* resolve_arguments: resolved.append(&mut str_forms) for each argument in
\* input order (lines 198-252)
RECURSIVE resolve_arguments(_, _)
resolve_arguments(arguments, q) ==
    IF arguments = <<>> THEN <<>>
    ELSE Contribution(arguments[1], q) \o resolve_arguments(Tail(arguments), q)

\* -------------------------------------------------- launch argument inputs
\* Strings over the characters of the model
StrPlain    == <<"-", "a">>
StrDashA    == <<"-", "-", "a">>
StrDashB    == <<"-", "-", "b">>
StrKey      == <<"$", "{", "k", "}">>
StrMissing  == <<"$", "{", "m", "}">>
StrMixed    == <<"x", "$", "{", "k", "}", "y">>
StrTwo      == <<"$", "{", "m", "}", "$", "{", "k", "}">>
StrUnclosed == <<"$", "{", "k">>
StrEmptyId  == <<"$", "{", "}">>

KeyK == <<"k">>
KeyM == <<"m">>

\* ArgumentQuery.constants tables: empty, one key, and one whose value for k
\* spells a placeholder itself
ConstTables ==
    {{}, {<<KeyK, <<"v">>>>}, {<<KeyK, StrMissing>>, <<KeyM, <<"w">>>>}}

StrArg(str) == [type |-> "String", str |-> str]
RulesArg(rules, value) == [type |-> "Rules", rules |-> rules, value |-> value]
ValueString(str) == [type |-> "String", str |-> str]
ValueArray(vec) == [type |-> "Array", vec |-> vec]

Rule(action, features, os) == [action |-> action, features |-> features, os |-> os]
OsConstraint(name, arch) == [name |-> name, arch |-> arch]

Features == {"X", "Y"}

\* Option<HashMap<String, bool>> values
FeatureReqs ==
    {None, Some({}), Some({<<"X", TRUE>>}), Some({<<"X", FALSE>>}),
     Some({<<"X", TRUE>>, <<"Y", FALSE>>})}

\* Option<ArgumentRuleOSConstraint> values
OsReqs ==
    {None,
     Some(OsConstraint(None, None)),
     Some(OsConstraint(Some("windows"), None)),
     Some(OsConstraint(Some("linux"), None)),
     Some(OsConstraint(None, Some("x86"))),
     Some(OsConstraint(Some("windows"), Some("x86_64")))}

RulePool == {Rule(a, f, o) : a \in {"Allow", "Deny"}, f \in FeatureReqs, o \in OsReqs}

AllowWindows == Rule("Allow", None, Some(OsConstraint(Some("windows"), None)))
AllowX       == Rule("Allow", Some({<<"X", TRUE>>}), None)
AllowNotX    == Rule("Allow", Some({<<"X", FALSE>>}), None)
AllowAny     == Rule("Allow", None, None)
DenyWindows  == Rule("Deny", None, Some(OsConstraint(Some("windows"), None)))
DenyAny      == Rule("Deny", None, None)

\* the rules that rule lists of two and more are made of
ListRules == {AllowWindows, AllowX, AllowNotX, AllowAny, DenyWindows, DenyAny}

SeqsUpTo(S, n) == UNION {[1..k -> S] : k \in 0..n}

RuleLists ==
    {<<>>} \cup {<<r>> : r \in RulePool}
           \cup UNION {[1..k -> ListRules] : k \in 2..MaxRules}

Platforms ==
    {[name |-> "windows", arch |-> "x86_64"],
     [name |-> "windows", arch |-> "x86"],
     [name |-> "linux", arch |-> "x86_64"]}

Query(constants, features, os) ==
    [constants |-> constants, features |-> features, os_properties |-> os]

\* the literal and guarded arguments that argument lists are made of
ArgPool ==
    {StrArg(StrPlain), StrArg(StrMissing), StrArg(StrMixed), StrArg(StrTwo),
     StrArg(StrUnclosed), StrArg(StrEmptyId),
     RulesArg(<<AllowWindows>>, ValueArray(<<StrDashA, StrDashB>>)),
     RulesArg(<<AllowX>>, ValueString(StrKey)),
     RulesArg(<<DenyAny>>, ValueString(StrPlain))}

\* info.arguments of the run: a manifest in the small
LaunchArguments ==
    [jvm  |-> <<StrArg(StrPlain),
                RulesArg(<<AllowWindows>>, ValueArray(<<StrDashA, StrDashB>>)),
                StrArg(StrKey)>>,
     game |-> <<StrArg(StrMissing), RulesArg(<<AllowX>>, ValueString(StrDashB))>>]

\* arg_query of lines 123-142: no features, windows / x86_64
LaunchQuery == Query({<<KeyK, <<"v">>>>}, {}, [name |-> "windows", arch |-> "x86_64"])

\* ------------------------------------------------------ digest verifier inputs
\* the upper-case spelling of some digests
UpperHex(bytes) ==
    CASE bytes = <<>>   -> "DA39A3EE5E6B4B0D3255BFEF95601890AFD80709"
      [] bytes = <<97>> -> "86F7E437FAA5A7FCE15D1DDCB9EAEAEA377667B8"
      [] bytes = <<98>> -> "E9D71F5EE7C92D6DC9E92FFDAD17B8BD49418F98"

\* a mixed-case spelling
MixedHex(bytes) ==
    CASE bytes = <<>>   -> "Da39a3ee5e6b4b0d3255bfef95601890afd80709"
      [] bytes = <<97>> -> "86F7e437faa5a7fce15d1ddcb9eaeaea377667b8"
      [] bytes = <<98>> -> "e9D71F5ee7c92d6dc9e92ffdad17b8bd49418f98"

CasedBytes == {<<>>, <<97>>, <<98>>}

VerifyBytes ==
    {<<>>, <<97>>, <<98>>, <<99>>, <<100>>, <<101>>, <<102>>, <<103>>, <<105>>, <<106>>,
     <<112>>, <<113>>, <<114>>, <<115>>, <<116>>, <<120>>}

\* expected digests that are no SHA-1 hex string
MalformedDigests == {"", "zz", "86f7e437", "86f7e437faa5a7fce15d1ddcb9eaeaea377667b8 "}

ExpectedDigests ==
    {Sha1Hex(b) : b \in VerifyBytes} \cup {UpperHex(b) : b \in CasedBytes}
        \cup {MixedHex(b) : b \in CasedBytes} \cup MalformedDigests

NoVerify == [bytes |-> <<>>, sha1 |-> "", done |-> FALSE, ok |-> FALSE]

\* -------------------------------------------------------------------- state
VARIABLES
    info,       \* the resolved VersionInfo (fixed during the run)
    disk,       \* path -> [dir, exists, bytes]: the files under work_path
    stage,      \* the position of launch_minecraft
    items,      \* the descriptors of the current stage, in input order
    task,       \* item index -> the state of that item's future
    next,       \* number of items of the stage dispatched so far
    joined,     \* number of items of the stage whose batch join_all returned
    doneOrder,  \* item indices of the current batch in completion order
    results,    \* the Vec returned by the last join_all
    exit,       \* how the run ended, "running" until then
    faults,     \* number of failures injected so far
    arguments,  \* info.arguments: [jvm, game], two lists of LaunchArgument
    arg_query,  \* the ArgumentQuery: [constants, features, os_properties]
    resolved,   \* [jvm, game]: jvm_args and game_args, empty until resolved
    verify      \* one call of check_sha1_matches: [bytes, sha1, done, ok]

\* the variables of the argument resolver and of the digest verifier
pure == <<arguments, arg_query, verify>>

vars == <<info, disk, stage, items, task, next, joined, doneOrder, results, exit, faults,
          arguments, arg_query, resolved, verify>>

Min(a, b) == IF a < b THEN a ELSE b

NoFile == [dir |-> FALSE, exists |-> FALSE, bytes |-> <<>>]
FileOf(bytes) == [dir |-> TRUE, exists |-> TRUE, bytes |-> bytes]

IdleTask ==
    [pc |-> "idle", hit |-> "none", url |-> <<>>, reqs |-> 0,
     bytes |-> <<>>, res |-> "None", touched |-> FALSE]

NoTasks(seq) == [i \in 1..Len(seq) |-> IdleTask]

\* the bytes a descriptor's destination holds when it is valid
ValidBytes(d) == Remote(d.url)

\* the destination paths that are not valid when the run starts: absent, or
\* present with foreign bytes
StaleChoices(inf) ==
    {s \in [AllPaths(inf) -> {"valid", "absent", "corrupt"}] :
        Cardinality({p \in AllPaths(inf) : s[p] # "valid"}) <= MaxStale}

InitialDisk(inf, s) ==
    [p \in AllPaths(inf) |->
        CASE s[p] = "absent"  -> NoFile
          [] s[p] = "corrupt" -> FileOf(CorruptBytes)
          [] OTHER -> FileOf(ValidBytes(CHOOSE d \in AllDescriptors(inf) : d.path = p))]

\* launch_minecraft up to the resolved version info (lines 12-25)
Init ==
    /\ \E dup \in BOOLEAN : info = VersionInfo(dup)
    /\ \E s \in StaleChoices(info) : disk = InitialDisk(info, s)
    /\ stage = "libraries"
    /\ items = info.libraries
    /\ task = NoTasks(info.libraries)
    /\ next = 0
    /\ joined = 0
    /\ doneOrder = <<>>
    /\ results = <<>>
    /\ exit = "running"
    /\ faults = 0
    /\ arguments = LaunchArguments
    /\ arg_query = LaunchQuery
    /\ resolved = [jvm |-> <<>>, game |-> <<>>]
    /\ verify = NoVerify

\* ------------------------------------------------------------------ helpers
Running == exit = "running"

\* the items of the batch that is dispatched and not yet joined
Batch == (joined + 1)..next

InFlightPcs == {"read", "fetch", "mkdir", "write", "writing"}
InFlight(i) == task[i].pc \in InFlightPcs

Fault == faults < MaxFaults /\ faults' = faults + 1
NoFault == faults' = faults

\* the future of item i resolves with r
Complete(i, r, hit) ==
    /\ task' = [task EXCEPT ![i].pc = "done", ![i].res = r, ![i].hit = hit]
    /\ doneOrder' = Append(doneOrder, i)

\* client.get(url).send(): the request is issued and the future suspends
SendRequest(t, url, hit) ==
    [t EXCEPT !.pc = "fetch", !.url = url, !.reqs = t.reqs + 1, !.hit = hit]

\* ------------------------------------------------ the batch fetch scheduler
\* The first poll of a future, up to its first suspension.
\*   library / client / index: download_artifact up to tokio::fs::read(..).await
\*     (path.exists() holds) or up to client.get(url).send().await (it does not);
\*   asset object: up to client.get(..).send().await.
FirstPoll(d) ==
    IF d.kind = "asset"
    THEN SendRequest(IdleTask, AssetUrl(d.sha1), "none")
    ELSE IF disk[d.path].exists
         THEN [IdleTask EXCEPT !.pc = "read"]
         ELSE SendRequest(IdleTask, d.url, "absent")

\* variant of Barrier: the next chunk is started without awaiting join_all
BarrierMutNone == TRUE

\* the join_all of the previous chunk has returned (the for loop over chunks
\* is sequential)
Barrier == joined = next

ChunkEnd(from, len) == Min(from + ChunkSize, len)

\* One iteration of `for chunked in ..chunks(4)`: the futures of the chunk are
\* built and join_all polls each of them once, in input order.  The single
\* download_artifact calls for the client jar and the asset index are a
\* stage of one item.
Dispatch ==
    /\ Running
    /\ stage \in {"libraries", "client", "asset_index", "assets"}
    /\ Barrier
    /\ next < Len(items)
    /\ LET hi == ChunkEnd(next, Len(items)) IN
        /\ task' = [i \in 1..Len(items) |->
                        IF i \in (next + 1)..hi THEN FirstPoll(items[i]) ELSE task[i]]
        /\ next' = hi
    /\ doneOrder' = <<>>
    /\ UNCHANGED <<pure, resolved, info, disk, stage, items, joined, results, exit, faults>>

\* ---------------------------------------------------------- download_artifact
\* variant of CacheCheck: the read bytes are not compared, the fetch always runs
CacheCheckMutSkip(i, d) ==
    /\ NoFault
    /\ task' = [task EXCEPT ![i] = SendRequest(task[i], d.url, "mismatch")]
    /\ UNCHANGED doneOrder

\* variant of CacheCheck: an existing destination is taken as valid
CacheCheckMutExistsOnly(i, d) ==
    \/ /\ Fault
       /\ Complete(i, "ErrIo", "none")
    \/ /\ NoFault
       /\ Complete(i, "Ok", "valid")

\* tokio::fs::read(&path).await? and the cache check (lines 176-178); on a
\* mismatch the request of line 186 is issued.
CacheCheck(i, d) ==
    \/ /\ Fault
       /\ Complete(i, "ErrIo", "none")
    \/ /\ NoFault
       /\ IF check_sha1_matches(disk[d.path].bytes, d.sha1)
          THEN Complete(i, "Ok", "valid")
          ELSE /\ task' = [task EXCEPT ![i] = SendRequest(task[i], d.url, "mismatch")]
               /\ UNCHANGED doneOrder

ReadDone(i) ==
    /\ Running
    /\ i \in Batch
    /\ task[i].pc = "read"
    /\ CacheCheck(i, items[i])
    /\ UNCHANGED <<pure, resolved, info, disk, stage, items, next, joined, results, exit>>

\* The blocking filesystem operations of the dropped sibling futures: an
\* operation under way on the blocking pool finishes, one not yet begun runs
\* or is dropped.
PendingOps(i) == {j \in Batch \ {i} : task[j].pc \in {"mkdir", "write", "writing"}}

DiskAfter(S) ==
    [p \in DOMAIN disk |->
        IF \E j \in S : items[j].path = p /\ task[j].pc \in {"write", "writing"}
        THEN FileOf(task[CHOOSE j \in S :
                        items[j].path = p /\ task[j].pc \in {"write", "writing"}].bytes)
        ELSE IF \E j \in S : items[j].path = p /\ task[j].pc = "mkdir"
             THEN [disk[p] EXCEPT !.dir = TRUE]
             ELSE disk[p]]

\* panic!("Incorrect hash") inside a future polled by join_all: the panic
\* unwinds through join_all and launch_minecraft, every other future of the
\* batch is dropped where it is suspended, and the process ends.
Panic(i) ==
    /\ exit' = "panic_incorrect_hash"
    /\ task' = [j \in DOMAIN task |->
                    IF j = i THEN [task[j] EXCEPT !.pc = "panicked"]
                    ELSE IF j \in Batch /\ InFlight(j)
                         THEN [task[j] EXCEPT !.pc = "cancelled"]
                         ELSE task[j]]
    /\ \E S \in SUBSET PendingOps(i) :
          /\ \A j \in PendingOps(i) : task[j].pc = "writing" => j \in S
          /\ disk' = DiskAfter(S)
    /\ UNCHANGED doneOrder

\* variant of VerifyFetched: the fetched bytes are written unchecked
VerifyFetchedMutAccept(i, d, b) ==
    /\ task' = [task EXCEPT ![i].pc = "mkdir", ![i].bytes = b]
    /\ UNCHANGED <<disk, exit, doneOrder>>

\* the verification of the fetched bytes (lines 188-190)
VerifyFetched(i, d, b) ==
    IF check_sha1_matches(b, d.sha1)
    THEN /\ task' = [task EXCEPT ![i].pc = "mkdir", ![i].bytes = b]
         /\ UNCHANGED <<disk, exit, doneOrder>>
    ELSE Panic(i)

\* variant of FetchDone: a failed request is issued again
FetchDoneMutRetry(i) ==
    /\ Running
    /\ i \in Batch
    /\ items[i].kind = "artifact"
    /\ task[i].pc = "fetch"
    /\ \/ /\ Fault
          /\ task' = [task EXCEPT ![i] = SendRequest(task[i], task[i].url, task[i].hit)]
          /\ UNCHANGED <<disk, exit, doneOrder>>
       \/ /\ NoFault
          /\ VerifyFetched(i, items[i], Remote(task[i].url))
       \/ /\ Fault
          /\ VerifyFetched(i, items[i], TamperedBytes)
    /\ UNCHANGED <<pure, resolved, info, stage, items, next, joined, results>>

\* client.get(&file_info.url).send().await?.bytes().await? and the check of
\* the fetched bytes (lines 186-190)
FetchDone(i) ==
    /\ Running
    /\ i \in Batch
    /\ items[i].kind = "artifact"
    /\ task[i].pc = "fetch"
    /\ \/ /\ Fault
          /\ Complete(i, "ErrTransport", task[i].hit)
          /\ UNCHANGED <<disk, exit>>
       \/ /\ NoFault
          /\ VerifyFetched(i, items[i], Remote(task[i].url))
       \/ /\ Fault
          /\ VerifyFetched(i, items[i], TamperedBytes)
    /\ UNCHANGED <<pure, resolved, info, stage, items, next, joined, results>>

\* the asset object closure: send().await?.bytes().await? (lines 84-92); the
\* bytes are taken as they come
AssetFetchDone(i) ==
    /\ Running
    /\ i \in Batch
    /\ items[i].kind = "asset"
    /\ task[i].pc = "fetch"
    /\ \/ /\ Fault
          /\ Complete(i, "ErrTransport", task[i].hit)
       \/ /\ NoFault
          /\ task' = [task EXCEPT ![i].pc = "mkdir", ![i].bytes = Remote(task[i].url)]
          /\ UNCHANGED doneOrder
       \/ /\ Fault
          /\ task' = [task EXCEPT ![i].pc = "mkdir", ![i].bytes = TamperedBytes]
          /\ UNCHANGED doneOrder
    /\ UNCHANGED <<pure, resolved, info, disk, stage, items, next, joined, results, exit>>

\* tokio::fs::create_dir_all(parent).await? (lines 192 and 94)
Mkdir(i) ==
    /\ Running
    /\ i \in Batch
    /\ task[i].pc = "mkdir"
    /\ \/ /\ Fault
          /\ Complete(i, "ErrIo", task[i].hit)
          /\ UNCHANGED disk
       \/ /\ NoFault
          /\ disk' = [disk EXCEPT ![items[i].path].dir = TRUE]
          /\ task' = [task EXCEPT ![i].pc = "write", ![i].touched = TRUE]
          /\ UNCHANGED doneOrder
    /\ UNCHANGED <<pure, resolved, info, stage, items, next, joined, results, exit>>

\* tokio::fs::write(&path, bytes) (lines 193 and 95) is std::fs::write on the
\* blocking pool: File::create truncates the destination ...
WriteOpen(i) ==
    /\ Running
    /\ i \in Batch
    /\ task[i].pc = "write"
    /\ \/ /\ Fault
          /\ Complete(i, "ErrIo", task[i].hit)
          /\ UNCHANGED disk
       \/ /\ NoFault
          /\ disk' = [disk EXCEPT ![items[i].path].exists = TRUE,
                                  ![items[i].path].bytes = <<>>]
          /\ task' = [task EXCEPT ![i].pc = "writing"]
          /\ UNCHANGED doneOrder
    /\ UNCHANGED <<pure, resolved, info, stage, items, next, joined, results, exit>>

\* ... and write_all stores the bytes, the future then returns Ok(()); when
\* write_all fails the `?` returns the Err and the destination stays as
\* File::create left it, existing and empty
WriteData(i) ==
    /\ Running
    /\ i \in Batch
    /\ task[i].pc = "writing"
    /\ \/ /\ Fault
          /\ Complete(i, "ErrIo", task[i].hit)
          /\ UNCHANGED disk
       \/ /\ NoFault
          /\ disk' = [disk EXCEPT ![items[i].path].bytes = task[i].bytes]
          /\ Complete(i, "Ok", task[i].hit)
    /\ UNCHANGED <<pure, resolved, info, stage, items, next, joined, results, exit>>

\* ------------------------------------------------------------ join and unwrap
\* variant of JoinAll: the outputs in the order in which the futures resolved
JoinAllMutCompletionOrder(lo, hi) == [k \in 1..(hi - lo + 1) |-> task[doneOrder[k]].res]

\* futures::future::join_all: the output of the k-th future of the chunk is
\* the k-th element of the returned Vec
JoinAll(lo, hi) == [k \in 1..(hi - lo + 1) |-> task[lo + k - 1].res]

AllResolved(lo, hi) == \A i \in lo..hi : task[i].pc = "done"

\* `for result in results { result.unwrap() }` for a chunk of libraries or
\* asset objects, `download_artifact(..).await?` for the client jar and the
\* asset index: the first Err ends the run
Unwrap(res) ==
    IF \A k \in 1..Len(res) : res[k] = "Ok"
    THEN "running"
    ELSE IF stage \in {"libraries", "assets"} THEN "panic_unwrap" ELSE "err"

Join ==
    /\ Running
    /\ joined < next
    /\ AllResolved(joined + 1, next)
    /\ results' = JoinAll(joined + 1, next)
    /\ exit' = Unwrap(results')
    /\ joined' = next
    /\ UNCHANGED <<pure, resolved, info, disk, stage, items, task, next, doneOrder, faults>>

\* variant of StageComplete: the last chunk is dispatched, not awaited
StageCompleteMutDispatched == Running /\ next = Len(items)

\* every chunk of the stage has been joined without an error
StageComplete == Running /\ joined = Len(items) /\ next = Len(items)

EnterStage(name, seq) ==
    /\ stage' = name
    /\ items' = seq
    /\ task' = NoTasks(seq)
    /\ next' = 0
    /\ joined' = 0
    /\ doneOrder' = <<>>
    /\ results' = <<>>

\* lines 51-53: the libraries are done, the client jar is next
DownloadClient ==
    /\ stage = "libraries"
    /\ StageComplete
    /\ EnterStage("client", <<info.client>>)
    /\ UNCHANGED <<pure, resolved, info, disk, exit, faults>>

\* lines 55-61: the asset index
DownloadAssetIndex ==
    /\ stage = "client"
    /\ StageComplete
    /\ EnterStage("asset_index", <<info.asset_index>>)
    /\ UNCHANGED <<pure, resolved, info, disk, exit, faults>>

Perms(n) == {f \in [1..n -> 1..n] : \A a, b \in 1..n : f[a] = f[b] => a = b}

\* SelectSeq with the source's closure: !asset_file.exists()
MissingObjects(objs) ==
    LET Missing(o) == ~disk[AssetFile(o.hash)].exists IN SelectSeq(objs, Missing)

\* lines 62-74: read_to_string(index_file).await?, serde_json::from_str(..)?,
\* then objects.values() (a HashMap: any order) filtered by
\* !asset_file.exists() and collected
ReadIndex ==
    /\ stage = "asset_index"
    /\ StageComplete
    /\ LET file == disk[info.asset_index.path]
           parsed == ParseAssetIndex(file.bytes)
       IN \/ /\ Fault
             /\ exit' = "err"
             /\ UNCHANGED <<stage, items, task, next, joined, doneOrder, results>>
          \/ /\ NoFault
             /\ ~(file.exists /\ parsed.ok)
             /\ exit' = "err"
             /\ UNCHANGED <<stage, items, task, next, joined, doneOrder, results>>
          \/ /\ NoFault
             /\ file.exists /\ parsed.ok
             /\ \E f \in Perms(Len(parsed.objects)) :
                  LET values == [k \in 1..Len(parsed.objects) |-> parsed.objects[f[k]]]
                      todo == MissingObjects(values)
                  IN EnterStage("assets", [k \in 1..Len(todo) |-> AssetObject(todo[k].hash)])
             /\ UNCHANGED exit
    /\ UNCHANGED <<pure, resolved, info, disk>>

\* lines 108-142: create_dir_all(game_dir).unwrap(), the classpath with
\* canonicalize(..).unwrap() of every library and of the client jar
PrepareLaunch ==
    /\ stage = "assets"
    /\ StageComplete
    /\ \/ /\ Fault
          /\ exit' = "panic_unwrap"
          /\ UNCHANGED stage
       \/ /\ NoFault
          /\ IF \A d \in ArtifactDescriptors(info) \ {info.asset_index} : disk[d.path].exists
             THEN stage' = "resolve" /\ UNCHANGED exit
             ELSE exit' = "panic_unwrap" /\ UNCHANGED stage
    /\ UNCHANGED <<pure, resolved, info, disk, items, task, next, joined, doneOrder, results>>

\* lines 144-145: resolve_arguments for the jvm and the game arguments
ResolveArguments ==
    /\ stage = "resolve"
    /\ Running
    /\ resolved' = [jvm  |-> resolve_arguments(arguments.jvm, arg_query),
                    game |-> resolve_arguments(arguments.game, arg_query)]
    /\ stage' = "launch"
    /\ UNCHANGED <<pure, info, disk, items, task, next, joined, doneOrder, results, exit, faults>>

\* lines 147-156: the process is spawned and awaited
Launch ==
    /\ stage = "launch"
    /\ Running
    /\ \/ Fault /\ exit' = "err"
       \/ NoFault /\ exit' = "ok"
    /\ UNCHANGED <<pure, resolved, info, disk, stage, items, task, next, joined, doneOrder, results>>

Next ==
    \/ Dispatch
    \/ \E i \in DOMAIN task : ReadDone(i)
    \/ \E i \in DOMAIN task : FetchDone(i)
    \/ \E i \in DOMAIN task : AssetFetchDone(i)
    \/ \E i \in DOMAIN task : Mkdir(i)
    \/ \E i \in DOMAIN task : WriteOpen(i)
    \/ \E i \in DOMAIN task : WriteData(i)
    \/ Join
    \/ DownloadClient
    \/ DownloadAssetIndex
    \/ ReadIndex
    \/ PrepareLaunch
    \/ ResolveArguments
    \/ Launch

Spec == Init /\ [][Next]_vars

\* The run of a manifest whose libraries are all different, under a runtime
\* that keeps polling and an environment in which every request and every
\* file operation completes or fails: a step that can be taken is taken.
InitFair == Init /\ info = VersionInfo(FALSE)

SpecFair == InitFair /\ [][Next]_vars /\ WF_vars(Next)

\* the download state once every batch is joined and the classpath is built
\* (after line 121): nothing is in flight
Synced ==
    /\ info = VersionInfo(FALSE)
    /\ disk = InitialDisk(info, [p \in AllPaths(info) |-> "valid"])
    /\ items = <<>>
    /\ task = <<>>
    /\ next = 0
    /\ joined = 0
    /\ doneOrder = <<>>
    /\ results = <<>>
    /\ exit = "running"
    /\ faults = 0

\* one guarded argument under every rule list, feature set and platform: the
\* jvm list holds it with an array value, the game list with a string value
GuardedInputs ==
    \E rules \in RuleLists, fs \in SUBSET Features, os \in Platforms :
        /\ arguments = [jvm  |-> <<RulesArg(rules, ValueArray(<<StrDashA, StrDashB>>))>>,
                        game |-> <<RulesArg(rules, ValueString(StrKey))>>]
        /\ arg_query = Query({<<KeyK, <<"v">>>>}, fs, os)

\* argument lists under every constants table
ListInputs ==
    \E list \in SeqsUpTo(ArgPool, MaxArgs), constants \in ConstTables :
        /\ arguments = [jvm |-> list, game |-> <<>>]
        /\ arg_query = Query(constants, {"X"}, [name |-> "windows", arch |-> "x86_64"])

\* launch_minecraft at line 144, for the manifests and queries of the model
InitResolve ==
    /\ Synced
    /\ stage = "resolve"
    /\ resolved = [jvm |-> <<>>, game |-> <<>>]
    /\ verify = NoVerify
    /\ (GuardedInputs \/ ListInputs)

SpecResolve == InitResolve /\ [][ResolveArguments]_vars

\* one call of check_sha1_matches (lines 265-272)
VerifyDigest ==
    /\ ~verify.done
    /\ verify' = [verify EXCEPT !.done = TRUE,
                                !.ok = check_sha1_matches(verify.bytes, verify.sha1)]
    /\ UNCHANGED <<arguments, arg_query, resolved, info, disk, stage, items, task, next,
                   joined, doneOrder, results, exit, faults>>

\* the calls of check_sha1_matches, for the byte strings and expected digests
\* of the model
InitVerify ==
    /\ Synced
    /\ stage = "resolve"
    /\ arguments = LaunchArguments
    /\ arg_query = LaunchQuery
    /\ resolved = [jvm |-> <<>>, game |-> <<>>]
    /\ \E b \in VerifyBytes, e \in ExpectedDigests :
          verify = [bytes |-> b, sha1 |-> e, done |-> FALSE, ok |-> FALSE]

SpecVerify == InitVerify /\ [][VerifyDigest]_vars

\* ------------------------------------------------------------------- claims
Valid(d) == disk[d.path].exists /\ check_sha1_matches(disk[d.path].bytes, d.sha1)

\* the step in which the future of item i resumes after its read, the read
\* having succeeded
ReadStep(i) ==
    /\ task[i].pc = "read"
    /\ task'[i].pc \notin {"read", "cancelled"}
    /\ faults' = faults

\* no other future of the batch is working on the destination of item i
SoleWriter(i) == \A j \in Batch \ {i} : items[j].path = items[i].path => ~InFlight(j)

\* C1: cache hit.  When download_artifact reads a destination that exists
\* and whose digest equals the expected digest, it returns Ok(()) in that
\* step, no request is issued by any future and the disk is left as it is.
C1_CacheHit ==
    [][\A i \in DOMAIN task :
          (ReadStep(i) /\ Valid(items[i]))
          => /\ task'[i].pc = "done"
             /\ task'[i].res = "Ok"
             /\ task'[i].reqs = 0
             /\ \A j \in DOMAIN task : task'[j].reqs = task[j].reqs
             /\ disk' = disk]_vars

C1_Witness ==
    \E i \in DOMAIN task :
        /\ items[i].kind = "artifact"
        /\ task[i].hit = "valid"
        /\ task[i].res = "Ok"
        /\ task[i].reqs = 0
        /\ Valid(items[i])

\* C2: integrity gate.  When download_artifact reads a destination whose
\* bytes do not match the expected digest it issues one request for the
\* descriptor's URL; and when such a call returns Ok(()), no other future
\* working on the same destination, the destination holds the fetched bytes
\* and they match the expected digest.
C2_IntegrityGate ==
    [][\A i \in DOMAIN task :
          /\ (ReadStep(i) /\ ~Valid(items[i]))
             => /\ task'[i].pc = "fetch"
                /\ task'[i].url = items[i].url
                /\ task'[i].reqs = task[i].reqs + 1
          /\ (/\ task[i].hit = "mismatch"
              /\ task[i].res = "None"
              /\ task'[i].res = "Ok"
              /\ SoleWriter(i))
             => /\ disk'[items[i].path] = FileOf(task[i].bytes)
                /\ check_sha1_matches(disk'[items[i].path].bytes, items[i].sha1)]_vars

C2_Witness ==
    \E i \in DOMAIN task :
        /\ items[i].kind = "artifact"
        /\ task[i].hit = "mismatch"
        /\ task[i].reqs = 1
        /\ task[i].res = "Ok"
        /\ Valid(items[i])

\* C3: fetched bytes are never written unverified.  A download_artifact call
\* that has created a directory or opened its destination for writing holds
\* fetched bytes that match the expected digest: a call whose fetch failed or
\* whose bytes failed the check has done neither, and no destination of
\* download_artifact ever holds bytes of a faulty transfer.
C3_NoUnverifiedWrite ==
    /\ \A i \in DOMAIN task :
          (items[i].kind = "artifact" /\ task[i].touched)
          => /\ task[i].pc # "panicked"
             /\ task[i].res # "ErrTransport"
             /\ check_sha1_matches(task[i].bytes, items[i].sha1)
    /\ \A d \in ArtifactDescriptors(info) : disk[d.path].bytes # TamperedBytes

C3_Witness ==
    \E i \in DOMAIN task :
        /\ items[i].kind = "artifact"
        /\ task[i].pc = "panicked"
        /\ task[i].hit = "mismatch"
        /\ ~task[i].touched
        /\ disk[items[i].path] = FileOf(CorruptBytes)

\* C4 (as claimed): in a run whose synchronisation completed without error,
\* every artifact destination (libraries, client jar, asset index, every asset
\* object of the index) holds bytes matching the artifact's expected digest.
C4_EveryArtifactVerified ==
    stage \in {"resolve", "launch"} => \A d \in AllDescriptors(info) : Valid(d)

\* C5 (as claimed): a digest mismatch after the fetch is the Err result of
\* that one item; the run is never ended from inside download_artifact.
C5_ErrorsAreValues ==
    /\ exit # "panic_incorrect_hash"
    /\ \A i \in DOMAIN task : task[i].pc # "panicked"

\* the chunk of chunks(ChunkSize) that item i falls into
ChunkOf(i) == (i - 1) \div ChunkSize

\* C6: bounded concurrency with a batch barrier.  At most ChunkSize futures
\* are in flight, they belong to one chunk, and a future of a later chunk has
\* started only when every future of the earlier chunks has resolved.
C6_BoundedConcurrency ==
    LET flying == {i \in DOMAIN task : InFlight(i)} IN
    /\ Cardinality(flying) <= ChunkSize
    /\ \A i, j \in flying : ChunkOf(i) = ChunkOf(j)
    /\ \A i, j \in DOMAIN task :
          (ChunkOf(i) < ChunkOf(j) /\ task[j].pc # "idle") => task[i].pc = "done"

C6_Witness ==
    /\ stage = "libraries"
    /\ \A i \in 1..ChunkSize : task[i].pc = "done"
    /\ InFlight(ChunkSize + 1)

\* C7 (as claimed): no future of a dispatched batch is cancelled: when the
\* run ends, every dispatched future has resolved or failed on its own.
C7_NoCancellation ==
    \A i \in DOMAIN task : task[i].pc # "cancelled"

\* C8 (as claimed): argument resolution and launch are reached only when no
\* artifact of the run had an integrity, transport or filesystem failure:
\* every future returned Ok and every fetched payload matched its digest.
C8_FailFast ==
    stage \in {"resolve", "launch"}
    => \A i \in DOMAIN task :
          /\ task[i].res = "Ok"
          /\ task[i].reqs > 0 => check_sha1_matches(task[i].bytes, items[i].sha1)

\* C9: order preservation.  The Vec join_all returns has one entry per
\* future of the chunk, the k-th entry being the result of the k-th
\* descriptor of the chunk, whatever the order of completion.
C9_OrderPreserved ==
    [][joined' > joined
       => /\ Len(results') = joined' - joined
          /\ \A k \in 1..Len(results') : results'[k] = task[joined + k].res]_vars

C9_Witness ==
    /\ joined = next
    /\ Len(results) >= 2
    /\ Len(doneOrder) = Len(results)
    /\ doneOrder[1] > doneOrder[2]
    /\ \E k \in 1..Len(results) : results[k] # "Ok"
    /\ \E k \in 1..Len(results) : results[k] = "Ok"

\* the complete byte strings a destination can hold: the bytes found at the
\* start of the run and the bytes of a whole response
CompleteContents ==
    {ValidBytes(d) : d \in AllDescriptors(info)} \cup {CorruptBytes, TamperedBytes}

\* C10 (as claimed): a destination that exists holds complete content: the
\* bytes from before the write or the complete fetched bytes, never an empty
\* or partially written file.
C10_AtomicWrite ==
    \A p \in DOMAIN disk : disk[p].exists => disk[p].bytes \in CompleteContents

\* ------------------------------------------------- claims on the resolver
\* the state after resolve_arguments ran on both lists
Resolved == stage = "launch"

\* the jvm list is one guarded argument with the single rule r
OneRule(r) ==
    /\ Len(arguments.jvm) = 1
    /\ arguments.jvm[1].type = "Rules"
    /\ arguments.jvm[1].rules = <<r>>

\* the guarded argument of the jvm list was included in the output
Included == resolved.jvm # <<>>

\* membership of every listed feature equals its required state
FeaturesEqual(r) ==
    \A e \in r.features.v : (e[1] \in arg_query.features) = e[2]

\* C11 (as claimed): a clause with a feature requirement passes exactly when,
\* for every (feature, required) entry, the feature's membership in the enabled
\* set equals required.  Observed on an Allow clause without platform
\* constraint, which is included exactly when its feature check passes.
C11_FeatureEquality ==
    \A r \in RulePool :
        (Resolved /\ OneRule(r) /\ r.action = "Allow" /\ r.features.some /\ ~r.os.some)
            => (Included <=> FeaturesEqual(r))

\* the entry requiring false of a feature that is enabled: the argument is
\* included all the same
C11_Witness ==
    /\ Resolved
    /\ OneRule(AllowNotX)
    /\ "X" \in arg_query.features
    /\ Included

\* C12: a clause passes exactly when (feature check AND platform check) differs
\* from (action is Deny); the clause {Deny, os=windows} passes exactly off
\* windows, and a Deny clause without any requirement never passes.
C12_ExcludeInversion ==
    /\ \A r \in RulePool :
          (Resolved /\ OneRule(r)) =>
              (Included <=> ((PassedFeatures(r, arg_query) /\ PassedOs(r, arg_query))
                                # (r.action = "Deny")))
    /\ (Resolved /\ OneRule(DenyWindows)) =>
          (Included <=> arg_query.os_properties.name # "windows")
    /\ (Resolved /\ OneRule(DenyAny)) => ~Included

C12_Witness ==
    /\ Resolved
    /\ OneRule(DenyWindows)
    /\ arg_query.os_properties.name = "linux"
    /\ resolved.jvm = <<StrDashA, StrDashB>>

\* every sub-field the constraint gives equals the platform's field
OsMatches(r) ==
    r.os.some =>
        /\ r.os.v.name.some => r.os.v.name.v = arg_query.os_properties.name
        /\ r.os.v.arch.some => r.os.v.arch.v = arg_query.os_properties.arch

\* C13: a clause's platform check passes exactly when each sub-field present
\* in the constraint (name, arch) equals the platform's field; an absent
\* sub-field and an absent constraint match every platform.  Observed on
\* clauses without feature requirement: an Allow clause is included exactly
\* when the platform matches, a Deny clause exactly when it does not.
C13_PlatformWildcards ==
    \A r \in RulePool :
        (Resolved /\ OneRule(r) /\ ~r.features.some)
            => (Included <=> (OsMatches(r) # (r.action = "Deny")))

\* an arch-only constraint on a platform of another arch: excluded though the
\* name is a wildcard
C13_Witness ==
    /\ Resolved
    /\ OneRule(Rule("Allow", None, Some(OsConstraint(None, Some("x86")))))
    /\ arg_query.os_properties = [name |-> "windows", arch |-> "x86_64"]
    /\ ~Included

\* each list is one guarded argument: the array ["--a", "--b"] in the jvm list,
\* the string "${k}" in the game list, under the same clause list
OneGuarded ==
    /\ Len(arguments.jvm) = 1
    /\ Len(arguments.game) = 1
    /\ arguments.jvm[1] = RulesArg(arguments.game[1].rules, ValueArray(<<StrDashA, StrDashB>>))
    /\ arguments.game[1] = RulesArg(arguments.jvm[1].rules, ValueString(StrKey))

\* C14: a guarded argument contributes its value exactly when every clause of
\* its list passes, whatever the order; an empty list always passes.  With
\* [allow os=windows, allow feature X] on windows/x86_64 the argument is included
\* for features {X} and excluded for no features.
C14_RuleConjunction ==
    Resolved /\ OneGuarded =>
        LET rules == arguments.jvm[1].rules
            all == \A k \in 1..Len(rules) : RulePasses(rules[k], arg_query)
        IN /\ resolved.jvm = (IF all THEN <<StrDashA, StrDashB>> ELSE <<>>)
           /\ resolved.game = (IF all THEN <<<<"v">>>> ELSE <<>>)
           /\ (rules = <<>>) => Included
           /\ (/\ rules \in {<<AllowWindows, AllowX>>, <<AllowX, AllowWindows>>}
               /\ arg_query.os_properties = [name |-> "windows", arch |-> "x86_64"])
                 => (Included <=> "X" \in arg_query.features)

\* one clause passes and the other fails: nothing is contributed
C14_Witness ==
    /\ Resolved
    /\ OneGuarded
    /\ arguments.jvm[1].rules = <<AllowWindows, AllowX>>
    /\ arg_query.os_properties = [name |-> "windows", arch |-> "x86_64"]
    /\ arg_query.features = {}
    /\ resolved.jvm = <<>>

RECURSIVE Flatten(_)
Flatten(seqs) == IF seqs = <<>> THEN <<>> ELSE seqs[1] \o Flatten(Tail(seqs))

RECURSIVE SumLen(_)
SumLen(seqs) == IF seqs = <<>> THEN 0 ELSE Len(seqs[1]) + SumLen(Tail(seqs))

\* the number of strings one argument is claimed to contribute
ContributionLen(arg) ==
    IF arg.type = "String" THEN 1
    ELSE IF \A k \in 1..Len(arg.rules) : RulePasses(arg.rules[k], arg_query)
         THEN IF arg.value.type = "String" THEN 1 ELSE Len(arg.value.vec)
         ELSE 0

\* C15: the output of resolve is the concatenation, in input order, of each
\* argument's contribution: one string for a literal, one string or all array
\* elements for a passing guarded argument, nothing for a failing one; array
\* elements stand in place, not at the end.
C15_OrderAndFlattening ==
    Resolved =>
        LET args == arguments.jvm
            parts == [k \in 1..Len(args) |-> Contribution(args[k], arg_query)]
        IN /\ resolved.jvm = Flatten(parts)
           /\ Len(resolved.jvm) = SumLen(parts)
           /\ \A k \in 1..Len(args) : Len(parts[k]) = ContributionLen(args[k])

\* an array value between two literals is expanded between them
C15_Witness ==
    /\ Resolved
    /\ arguments.jvm = <<StrArg(StrPlain),
                         RulesArg(<<AllowWindows>>, ValueArray(<<StrDashA, StrDashB>>)),
                         StrArg(StrPlain)>>
    /\ resolved.jvm = <<StrPlain, StrDashA, StrDashB, StrPlain>>

\* the strings of the model as literal pieces and placeholder identifiers
Lit(str) == [key |-> FALSE, str |-> str]
Key(str) == [key |-> TRUE, str |-> str]

Pieces(s) ==
    CASE s = StrPlain   -> <<Lit(StrPlain)>>
      [] s = StrDashA   -> <<Lit(StrDashA)>>
      [] s = StrDashB   -> <<Lit(StrDashB)>>
      [] s = StrKey     -> <<Key(KeyK)>>
      [] s = StrMissing -> <<Key(KeyM)>>
      [] s = StrMixed   -> <<Lit(<<"x">>), Key(KeyK), Lit(<<"y">>)>>
      [] s = StrTwo     -> <<Key(KeyM), Key(KeyK)>>
      [] s = StrUnclosed -> <<Lit(StrUnclosed)>>
      [] s = StrEmptyId  -> <<Lit(StrEmptyId)>>

\* the table's value for the identifier, the empty string when it has none
TableValue(key) ==
    IF \E e \in arg_query.constants : e[1] = key
    THEN (CHOOSE e \in arg_query.constants : e[1] = key)[2]
    ELSE <<>>

\* the string with each placeholder replaced as claimed
Substituted(s) ==
    LET ps == Pieces(s)
    IN Flatten([k \in 1..Len(ps) |-> IF ps[k].key THEN TableValue(ps[k].str) ELSE ps[k].str])

\* the strings an argument contributes, before substitution
Strings(arg) ==
    IF arg.type = "String" THEN <<arg.str>>
    ELSE IF \A k \in 1..Len(arg.rules) : RulePasses(arg.rules[k], arg_query)
         THEN IF arg.value.type = "String" THEN <<arg.value.str>> ELSE arg.value.vec
         ELSE <<>>

\* C16: in every contributed string each ${identifier} is replaced by the
\* constants table's value, by the empty string when the table lacks it; a
\* missing key does not abort the resolution, does not remove the string from
\* the output and does not change how the later arguments are resolved.
C16_SubstitutionTotal ==
    Resolved =>
        LET args == arguments.jvm
            strs == Flatten([k \in 1..Len(args) |-> Strings(args[k])])
        IN /\ Len(resolved.jvm) = Len(strs)
           /\ \A k \in 1..Len(strs) : resolved.jvm[k] = Substituted(strs[k])

\* a literal with a missing key becomes the empty string, stays in the output,
\* and the argument after it is substituted as usual
C16_Witness ==
    /\ Resolved
    /\ arg_query.constants = {<<KeyK, <<"v">>>>}
    /\ arguments.jvm = <<StrArg(StrMissing), StrArg(StrMixed)>>
    /\ resolved.jvm = <<<<>>, <<"x", "v", "y">>>>

\* ------------------------------------------- claims on the digest verifier
\* the lower-case form of an expected digest
LowerHex(sha1) ==
    IF \E b \in CasedBytes : sha1 \in {UpperHex(b), MixedHex(b)}
    THEN Sha1Hex(CHOOSE b \in CasedBytes : sha1 \in {UpperHex(b), MixedHex(b)})
    ELSE sha1

\* C17 (as claimed): verify(bytes, expected) is true exactly when the hex
\* digest of bytes equals expected after case normalization: an upper-case or
\* mixed-case expected digest matches the bytes its lower-case form matches.
C17_CaseNormalized ==
    verify.done => (verify.ok <=> (Sha1Hex(verify.bytes) = LowerHex(verify.sha1)))

\* the upper-case digest of the bytes it was computed from is rejected
C17_Witness ==
    /\ verify.done
    /\ verify.bytes = <<97>>
    /\ verify.sha1 = UpperHex(<<97>>)
    /\ ~verify.ok

\* ---------------------------------------------- claims on the whole run
\* the descriptors of the stage have pairwise distinct destinations
UniquePaths ==
    \A i, j \in 1..Len(items) : items[i].path = items[j].path => i = j

\* the batches dispatched so far are over: joined, or ended with the run
BatchesOver == joined = next \/ ~Running

\* item i failed by itself: its own read, request, digest check or write
OwnFailure(i) ==
    \/ task[i].pc = "panicked"
    \/ task[i].pc = "done" /\ task[i].res \in {"ErrIo", "ErrTransport"}

\* C18 (as claimed): with pairwise distinct destinations the outcome of every
\* dispatched library and the content of its destination do not depend on the
\* interleaving and completion order of the batch: when its batch is over, an
\* item has the outcome it reaches when it runs alone, which is its own
\* failure or Ok with a destination that matches its digest.
C18_InterleavingIndependent ==
    (stage = "libraries" /\ UniquePaths /\ BatchesOver) =>
        \A i \in 1..next :
            \/ OwnFailure(i)
            \/ task[i].pc = "done" /\ task[i].res = "Ok" /\ Valid(items[i])

\* the fetch of library 1 came back with a wrong digest while library 2 was
\* still being read: library 2 is left without an outcome, where it returns
\* Ok when its read completes first
C18_Witness ==
    /\ stage = "libraries"
    /\ UniquePaths
    /\ exit = "panic_incorrect_hash"
    /\ task[1].pc = "panicked"
    /\ task[2].pc = "cancelled"
    /\ Valid(items[2])

\* the shared destination of C18: two descriptors of one batch with the same
\* path both issued a request and both wrote the file
C18_SharedDestination ==
    /\ stage = "libraries"
    /\ items[1].path = items[2].path
    /\ \A i \in {1, 2} :
          task[i].pc = "done" /\ task[i].reqs = 1 /\ task[i].touched /\ task[i].res = "Ok"

\* the sync run is over: every batch succeeded, or the run was aborted
SyncEnded == stage \in {"resolve", "launch"} \/ ~Running

\* C19: every download_artifact call and every asset object closure issues at
\* most one request: none when the destination was valid, exactly one once the
\* destination was found absent or mismatching, and a failed request is not
\* repeated, so a stage of n descriptors issues at most n requests; and when
\* every request and file operation completes or fails, the sync run
\* eventually ends, in success or in an abort.
C19_OneFetchAndTermination ==
    /\ [](\A i \in DOMAIN task :
            /\ task[i].reqs <= 1
            /\ task[i].hit = "valid" => task[i].reqs = 0
            /\ task[i].hit \in {"absent", "mismatch"} => task[i].reqs = 1)
    /\ <>SyncEnded

\* a mismatching destination was fetched once, verified and written
C19_Witness ==
    /\ stage = "libraries"
    /\ \E i \in DOMAIN task :
          /\ task[i].hit = "mismatch"
          /\ task[i].pc = "done"
          /\ task[i].res = "Ok"
          /\ task[i].reqs = 1
          /\ Valid(items[i])

\* the stages in the order of launch_minecraft
StageOrder ==
    {<<"libraries", "client">>, <<"client", "asset_index">>, <<"asset_index", "assets">>,
     <<"assets", "resolve">>, <<"resolve", "launch">>}

\* C20: the stages follow one another in the order libraries, client jar,
\* asset index, asset objects, argument resolution, launch; a stage starts only
\* when every task of the stage before it was dispatched and returned Ok, none
\* being in flight; the asset index is read, and asset objects are dispatched,
\* only after download_artifact returned Ok for the index, whose file then
\* matches its digest.
C20_StageOrdering ==
    [][stage' # stage =>
          /\ <<stage, stage'>> \in StageOrder
          /\ Running
          /\ next = Len(items)
          /\ \A i \in DOMAIN task : task[i].pc = "done" /\ task[i].res = "Ok"
          /\ stage = "asset_index" =>
                /\ Len(task) = 1
                /\ Valid(info.asset_index)]_vars

\* asset objects are in flight, the index they were read from is valid
C20_Witness ==
    /\ stage = "assets"
    /\ \E i \in DOMAIN task : InFlight(i)
    /\ Valid(info.asset_index)

====
